---- MODULE Spec2Model ----
(***************************************************************************)
(* Model of pynut3 (src/src/pynut3/nut3.py): the PyNUT3Client session, its *)
(* command validation, response sanitising and inventory building.        *)
(*                                                                         *)
(* Strings.  A Python str is modelled as a sequence of symbols.  The       *)
(* symbols " " (space), "\r", "\n", "\"" (double quote) and "%" are the    *)
(* characters themselves; every other symbol ("LIST", "ups1", ...) stands  *)
(* for a run of non-blank, non-quote characters that is treated as one     *)
(* indivisible character of the alphabet.  So "LIST VAR ups1" is           *)
(* <<"LIST", " ", "VAR", " ", "ups1">>; str.split, str.replace, shlex.split*)
(* and "in" are computed on these sequences as Python computes them on     *)
(* characters.                                                             *)
(*                                                                         *)
(* A Python list is a sequence; a Python dict is a sequence of             *)
(* <<key, value>> pairs with distinct keys, in insertion order.            *)
(***************************************************************************)
EXTENDS Integers, Sequences, FiniteSets, TLC

(***************************************************************************)
(* Bounds of the model.                                                    *)
(***************************************************************************)
\* longest command string, in tokens, handed to cmd() by the grammar harness
MaxTokens == 3
\* longest raw response, in lines, handed to cmd() by the framing harness
MaxLines == 5
\* number of server replies per public call that deviate from the protocol
MaxFaults == 1
\* transports that may be open at once before the model stops spawning more
MaxOpen == 2
\* longest stream, in lines, that the reading loop of _read() is run on
MaxStream == 2
MaxDesc == 3
MaxPayload == 2

SP == " "
CR == "\r"
NL == "\n"
DQ == "\""
None == <<>>

(***************************************************************************)
(* Python built-ins on strings, lists and dicts.                           *)
(***************************************************************************)
\* f-string / "+" concatenation of words with single spaces in between
RECURSIVE join(_)
join(words) ==
    IF words = <<>> THEN <<>>
    ELSE IF Len(words) = 1 THEN words[1]
    ELSE words[1] \o <<SP>> \o join(Tail(words))

\* str.split(sep) for a one-character separator: empty fields are kept
RECURSIVE split(_, _)
split(s, sep) ==
    IF \A i \in 1..Len(s) : s[i] # sep THEN <<s>>
    ELSE LET i == CHOOSE k \in 1..Len(s) :
                     s[k] = sep /\ \A j \in 1..(k - 1) : s[j] # sep
         IN  <<SubSeq(s, 1, i - 1)>> \o split(SubSeq(s, i + 1, Len(s)), sep)

Whitespace == {SP, CR, NL}

\* str.split() without argument: runs of whitespace separate, no empty fields
RECURSIVE split_ws(_, _)
split_ws(s, cur) ==
    IF s = <<>> THEN (IF cur = <<>> THEN <<>> ELSE <<cur>>)
    ELSE IF Head(s) \in Whitespace
         THEN (IF cur = <<>> THEN <<>> ELSE <<cur>>) \o split_ws(Tail(s), <<>>)
         ELSE split_ws(Tail(s), Append(cur, Head(s)))

\* str.replace(old, new), old not empty: leftmost non-overlapping occurrences
RECURSIVE replace(_, _, _)
replace(s, old, new) ==
    IF Len(s) < Len(old) THEN s
    ELSE IF SubSeq(s, 1, Len(old)) = old
         THEN new \o replace(SubSeq(s, Len(old) + 1, Len(s)), old, new)
         ELSE <<Head(s)>> \o replace(Tail(s), old, new)

\* x in list
In(x, list) == \E i \in 1..Len(list) : list[i] = x

\* shlex.split(s): whitespace separates tokens, a double-quoted part belongs
\* to the token being built (the quotes are dropped, "" gives an empty
\* token), an unclosed quote raises ValueError.
\*   tok: the token being built, has: whether one is being built,
\*   inq: inside quotes, acc: the tokens finished so far
RECURSIVE shlex_scan(_, _, _, _, _)
shlex_scan(s, tok, has, inq, acc) ==
    IF s = <<>>
    THEN IF inq THEN [exc |-> "ValueError", toks |-> <<>>]
         ELSE [exc |-> "none", toks |-> IF has THEN Append(acc, tok) ELSE acc]
    ELSE LET c == Head(s) IN
         IF inq
         THEN IF c = DQ THEN shlex_scan(Tail(s), tok, TRUE, FALSE, acc)
              ELSE shlex_scan(Tail(s), Append(tok, c), TRUE, TRUE, acc)
         ELSE IF c = DQ THEN shlex_scan(Tail(s), tok, TRUE, TRUE, acc)
         ELSE IF c \in Whitespace
              THEN shlex_scan(Tail(s), <<>>, FALSE, FALSE,
                              IF has THEN Append(acc, tok) ELSE acc)
              ELSE shlex_scan(Tail(s), Append(tok, c), TRUE, FALSE, acc)

shlex_split(s) == shlex_scan(s, <<>>, FALSE, FALSE, <<>>)

\* dict: key in d, d[key], d[key] = value (insertion order is kept)
dict_keys(d) == [i \in 1..Len(d) |-> d[i][1]]
dict_has(d, k) == \E i \in 1..Len(d) : d[i][1] = k
dict_get(d, k) == d[CHOOSE i \in 1..Len(d) : d[i][1] = k][2]
dict_set(d, k, v) ==
    IF dict_has(d, k)
    THEN [i \in 1..Len(d) |-> IF d[i][1] = k THEN <<k, v>> ELSE d[i]]
    ELSE Append(d, <<k, v>>)

(***************************************************************************)
(* The static grammar table.                                               *)
(***************************************************************************)
SUPPORTED ==
    [k \in {<<"commands">>, <<"LIST">>} |->
        IF k = <<"commands">>
        THEN << <<"VER">>, <<"HELP">>, <<"LOGOUT">>, <<"LIST">>, <<"PROTVER">> >>
        ELSE << <<"CLIENT", SP, "%">>, <<"CMD", SP, "%">>, <<"RW", SP, "%">>,
                <<"UPS">>, <<"VAR", SP, "%">> >>]

\* the default of the constructor's and of _read()'s timeout, in seconds
TIMEOUT == 2

(***************************************************************************)
(* cmd(): splitting the command, validating it, sanitising the response.   *)
(***************************************************************************)
\* splt_cmd[i], or "" on IndexError
main_cmd(command) == split(command, SP)[1]
sub_cmd(command) ==
    LET splt_cmd == split(command, SP)
    IN  IF Len(splt_cmd) >= 2 THEN splt_cmd[2] ELSE <<>>
par_cmd(command) ==
    LET splt_cmd == split(command, SP)
    IN  IF Len(splt_cmd) >= 3 THEN splt_cmd[3] ELSE <<>>

\* The two sub-command checks of cmd(); the result is the exception raised
\* ("none" when the command passes).  SUPPORTED[main_cmd] with a main command
\* that is not a key of SUPPORTED raises KeyError.
check_sub(main, sub, par) ==
    IF sub # <<>> /\ par = <<>>
    THEN IF main \notin DOMAIN SUPPORTED THEN "KeyError"
         ELSE IF ~In(sub, SUPPORTED[main]) THEN "UnsupportedSubcommand"
         ELSE "none"
    ELSE IF sub # <<>> /\ par # <<>>
    THEN IF main \notin DOMAIN SUPPORTED THEN "KeyError"
         ELSE IF ~In(sub \o <<SP, "%">>, SUPPORTED[main]) THEN "UnsupportedSubcommand"
         ELSE "none"
    ELSE "none"

\* validate with the client's check made before the server's
validate_ClientFirst(valid_commands, command) ==
    LET main == main_cmd(command)
    IN  IF ~In(main, SUPPORTED[<<"commands">>]) THEN "UnsupportedByClient"
        ELSE IF ~In(main, valid_commands) THEN "UnsupportedByServer"
        ELSE check_sub(main, sub_cmd(command), par_cmd(command))

\* validate without the check against the client's static command set
validate_NoClientCheck(valid_commands, command) ==
    LET main == main_cmd(command)
    IN  IF ~In(main, valid_commands) THEN "UnsupportedByServer"
        ELSE check_sub(main, sub_cmd(command), par_cmd(command))

\* The checks of cmd(), in order; the result is the exception raised ("none"
\* when the command passes).
validate(valid_commands, command) ==
    LET main == main_cmd(command)
    IN  IF ~In(main, valid_commands) THEN "UnsupportedByServer"
        ELSE IF ~In(main, SUPPORTED[<<"commands">>]) THEN "UnsupportedByClient"
        ELSE check_sub(main, sub_cmd(command), par_cmd(command))

\* One pass of the sanitising loop over _returned_list
RECURSIVE mod_list(_, _, _)
mod_list(returned_list, sub, par) ==
    IF returned_list = <<>> THEN <<>>
    ELSE LET s0 == Head(returned_list)
             s1 == IF split(s0, SP)[1] = <<"BEGIN">> THEN <<>> ELSE s0
             s2 == IF split(s1, SP)[1] = <<"END">> THEN <<>> ELSE s1
             s3 == IF s2 # <<>>
                   THEN replace(s2, sub \o <<SP>> \o par \o <<SP>>, <<>>)
                   ELSE s2
         IN  (IF s3 # <<>> THEN <<replace(s3, <<CR>>, <<>>)>> ELSE <<>>)
             \o mod_list(Tail(returned_list), sub, par)

(***************************************************************************)
(* State.                                                                  *)
(***************************************************************************)
VARIABLES
    persistent,         \* self._persistent
    login,              \* self._login   (None when not supplied)
    password,           \* self._password (None when not supplied)
    _timeout,           \* self._timeout: the timeout given to the constructor
    child,              \* self._child: the handle of the spawned transport, 0 for None
    valid_commands,     \* self.valid_commands
    connected_devices,  \* self.connected_devices
    devices,            \* self.devices
    open,               \* handles of the transports spawned and not closed
    spawns,             \* number of transports spawned during the latest public call
    wire,               \* what the latest public call wrote: <<[h, by, text], ...>>
    srv,                \* the server's inventory
    phase,              \* "new": before __init__, "ready": constructed,
                        \* "dead": __init__ raised, "reading": see SpecRead
    last,               \* the latest public call and its outcome (or the latest
                        \* change at the server, when that came after it)
    rd                  \* the loop of _read(), step by step (see SpecRead)

vars == <<persistent, login, password, _timeout, child, valid_commands, connected_devices,
          devices, open, spawns, wire, srv, phase, last, rd>>

\* The fields of the session and of its transports, as one record that the
\* methods below take and return.
Session ==
    [child |-> child, valid_commands |-> valid_commands,
     connected_devices |-> connected_devices, devices |-> devices,
     open |-> open, spawns |-> spawns, wire |-> wire]

\* the session as a public call finds it: nothing written or spawned yet
Entry == [Session EXCEPT !.wire = <<>>, !.spawns = 0]

Commit(s) ==
    /\ child' = s.child
    /\ valid_commands' = s.valid_commands
    /\ connected_devices' = s.connected_devices
    /\ devices' = s.devices
    /\ open' = s.open
    /\ spawns' = s.spawns
    /\ wire' = s.wire

(***************************************************************************)
(* The server (the NUT daemon behind the transport).                       *)
(***************************************************************************)
W(t) == <<t>>

DevNames == {W("ups1"), W("ups2")}

\* the inventories a server may hold (user, pass: its replies to the
\* USERNAME and the PASSWORD command)
Servers ==
    { [user |-> << W("OK") >>, pass |-> << W("OK") >>,
       help |-> << W("HELP"), W("VER"), W("GET"), W("LIST"), W("LOGOUT") >>,
       ups  |-> << <<W("ups1"), <<"Test", SP, "UPS">> >> >>,
       vars |-> << <<W("ups1"), << <<W("v1"), W("100")>>, <<W("v2"), <<"a", SP, "b">> >> >> >> >>,
       rw   |-> << <<W("ups1"), << <<W("v2"), <<"a", SP, "b">> >> >> >> >>,
       cmds |-> << <<W("ups1"), << W("c1") >> >> >>],
      [user |-> << W("OK") >>, pass |-> << W("OK") >>,
       help |-> << W("HELP"), W("VER"), W("LIST"), W("PROTVER"), W("FOO") >>,
       ups  |-> <<>>, vars |-> <<>>, rw |-> <<>>, cmds |-> <<>>] }

\* one line per entry of a listing: `<sub> <dev> <key> "<value>"`
RECURSIVE var_lines(_, _, _)
var_lines(sub, dev, d) ==
    IF d = <<>> THEN <<>>
    ELSE << join(<<sub, dev, d[1][1], <<DQ>> \o d[1][2] \o <<DQ>> >>) >>
         \o var_lines(sub, dev, Tail(d))

RECURSIVE ups_lines(_)
ups_lines(d) ==
    IF d = <<>> THEN <<>>
    ELSE << join(<<W("UPS"), d[1][1], <<DQ>> \o d[1][2] \o <<DQ>> >>) >>
         \o ups_lines(Tail(d))

block(echo, lines) ==
    << W("BEGIN") \o <<SP>> \o echo >> \o lines \o << W("END") \o <<SP>> \o echo >>

\* the reply of a well-behaved server to one request line
WellFormed(req) ==
    LET t == split(req, SP) IN
    IF req = W("HELP") THEN << join(<<W("Commands:")>> \o srv.help) >>
    ELSE IF req = <<>> THEN <<>>
    ELSE IF req = W("VER") THEN << join(<<W("upsd"), W("2.8")>>) >>
    ELSE IF req = W("PROTVER") THEN << W("1.3") >>
    ELSE IF t[1] = W("USERNAME") THEN srv.user
    ELSE IF t[1] = W("PASSWORD") THEN srv.pass
    ELSE IF t[1] = W("LOGOUT") THEN << join(<<W("OK"), W("Goodbye")>>) >>
    ELSE IF req = join(<<W("LIST"), W("UPS")>>) THEN block(req, ups_lines(srv.ups))
    ELSE IF Len(t) = 3 /\ t[1] = W("LIST")
            /\ t[2] \in {W("VAR"), W("RW"), W("CMD"), W("CLIENT")}
         THEN IF ~dict_has(srv.ups, t[3])
              THEN << join(<<W("ERR"), W("UNKNOWN-UPS")>>) >>
              ELSE IF t[2] = W("VAR")
                   THEN block(req, var_lines(t[2], t[3], dict_get(srv.vars, t[3])))
              ELSE IF t[2] = W("RW")
                   THEN block(req, var_lines(t[2], t[3], dict_get(srv.rw, t[3])))
              ELSE IF t[2] = W("CMD")
                   THEN block(req, [i \in 1..Len(dict_get(srv.cmds, t[3])) |->
                                      join(<<t[2], t[3], dict_get(srv.cmds, t[3])[i]>>)])
              ELSE block(req, << join(<<t[2], t[3], W("127.0.0.1")>>) >>)
    ELSE IF t[1] = W("GET") /\ Len(t) = 3 /\ t[2] = W("NUMLOGINS")
         THEN IF dict_has(srv.ups, t[3]) THEN << join(<<t[2], t[3], W("1")>>) >>
              ELSE << join(<<W("ERR"), W("UNKNOWN-UPS")>>) >>
    ELSE << join(<<W("ERR"), W("UNKNOWN-COMMAND")>>) >>

\* the ways in which a reply may deviate from the well-formed one; the kind
\* "literal" replaces the reply by the given lines
FaultKinds == {"err", "nobegin", "noise", "trailing", "silent"}
Faults == {[kind |-> k, lines |-> <<>>] : k \in FaultKinds}
Literal(lines) == [kind |-> "literal", lines |-> lines]

Deviate(mode, lines) ==
    IF mode.kind = "err" THEN << join(<<W("ERR"), W("UNKNOWN-UPS")>>) >>
    ELSE IF mode.kind = "nobegin" THEN (IF lines = <<>> THEN <<>> ELSE Tail(lines))
    ELSE IF mode.kind = "noise" THEN << W("junk") >> \o lines
    ELSE IF mode.kind = "trailing" THEN lines \o << W("late") >>
    ELSE IF mode.kind = "silent" THEN <<>>
    ELSE mode.lines

\* A plan says which requests of one public call get a deviating reply: a
\* set of <<request, mode>> pairs, at most one pair per request, taken from
\* the candidate pairs `cands`.
PlanReqs(plan) == {p[1] : p \in plan}
RECURSIVE Plans(_, _)
Plans(cands, n) ==
    IF n = 0 THEN {{}}
    ELSE LET less == Plans(cands, n - 1)
         IN  less \cup { q[1] \cup {q[2]} :
                         q \in {q \in less \X cands : q[2][1] \notin PlanReqs(q[1])} }

\* every deviation of the replies to the requests `reqs`
Deviations(reqs) == reqs \X Faults

\* what _read() collects after `req` was written
Reply(plan, req) ==
    IF req \in PlanReqs(plan)
    THEN Deviate((CHOOSE p \in plan : p[1] = req)[2], WellFormed(req))
    ELSE WellFormed(req)

(***************************************************************************)
(* The methods of PyNUT3Client.  Each takes the session record s and the   *)
(* plan of the server's replies and returns [s, exc, ret]: the session it  *)
(* leaves, the exception it raises ("none" when it returns) and its value. *)
(***************************************************************************)
\* (raw: the lines _read() returned to cmd(), kept for the record of the call)
Ok(s, ret) == [s |-> s, exc |-> "none", ret |-> ret, raw |-> <<>>]
Raise(s, exc) == [s |-> s, exc |-> exc, ret |-> <<>>, raw |-> <<>>]

\* the exceptions of the four validation checks of cmd()
Rejections ==
    {"UnsupportedByServer", "UnsupportedByClient", "UnsupportedSubcommand", "KeyError"}

\* The condition of the transport during a call: what sendline() and what
\* close() raise ("none": they succeed).
Up == [write |-> "none", close |-> "none"]

\* a connection that is already closed: sendline() raises one of the errors
\* _write() expects of it, close() succeeds or raises ExceptionPexpect
Gone ==
    [write : {"ExceptionPexpect", "EOFError", "BrokenPipeError"},
     close : {"none", "ExceptionPexpect"}]

\* _write(string): RuntimeError without a transport; else the line is sent,
\* and an ExceptionPexpect, EOFError or BrokenPipeError of sendline() is
\* logged and not raised again (by: the method that writes)
_write(s, by, string, io) ==
    IF s.child = 0 THEN Raise(s, "RuntimeError")
    ELSE IF io.write = "none"
    THEN Ok([s EXCEPT !.wire = Append(@, [h |-> s.child, by |-> by, text |-> string])],
            <<>>)
    ELSE IF io.write \in {"ExceptionPexpect", "EOFError", "BrokenPipeError"}
    THEN Ok(s, <<>>)
    ELSE Raise(s, io.write)

\* _read(): RuntimeError without a transport, else the lines that arrive
\* before the timeout, in reply to the request written last
_read(s, plan, req) ==
    IF s.child = 0 THEN Raise(s, "RuntimeError")
    ELSE Ok(s, Reply(plan, req))

\* self._child = pexpect.spawn(...): a new transport; its handle is the
\* smallest one not in use.  A transport that self._child referenced before
\* is not closed by the assignment (see Finalize).
spawn(s) ==
    LET h == CHOOSE n \in 1..(Cardinality(s.open) + 1) :
                 n \notin s.open /\ \A m \in 1..(n - 1) : m \in s.open
    IN  [s EXCEPT !.child = h, !.open = @ \cup {h}, !.spawns = @ + 1]

\* Sequencing of statements: Bind evaluates r once and goes on with F(r);
\* Try goes on with F(r) only when r did not raise, else r propagates.
Bind(r, F(_)) == CHOOSE z \in {F(y) : y \in {r}} : TRUE
Try(r, F(_)) == Bind(r, LAMBDA y : IF y.exc # "none" THEN y ELSE F(y))

\* credential that goes on whatever the server replies
credential_NoCheck(s, plan, string) ==
    Try(_write(s, "_connect", string, Up), LAMBDA w :
    Try(_read(w.s, plan, string), LAMBDA r : Ok(r.s, <<>>)))

\* one credential of _connect(): write it, read the reply, look for "OK"
credential(s, plan, string) ==
    Try(_write(s, "_connect", string, Up), LAMBDA w :
    Try(_read(w.s, plan, string), LAMBDA r :
        IF ~In(W("OK"), r.ret) THEN Raise(r.s, "LoginError") ELSE Ok(r.s, <<>>)))

\* _connect that sends the password before the login
_connect_PasswordFirst(s, plan) ==
    Bind(spawn(s), LAMBDA s1 :
    Bind(Try(IF password # None
             THEN credential(s1, plan, W("PASSWORD") \o <<SP>> \o password)
             ELSE Ok(s1, <<>>), LAMBDA u :
             IF login # None
             THEN credential(u.s, plan, W("USERNAME") \o <<SP>> \o login)
             ELSE u), LAMBDA p :
        IF p.exc # "none" THEN Raise(p.s, "SomethingWentWrong") ELSE p))

\* _connect(): every exception is re-raised as PyNUT3Error("Something went wrong!")
_connect(s, plan) ==
    Bind(spawn(s), LAMBDA s1 :
    Bind(Try(IF login # None
             THEN credential(s1, plan, W("USERNAME") \o <<SP>> \o login)
             ELSE Ok(s1, <<>>), LAMBDA u :
             IF password # None
             THEN credential(u.s, plan, W("PASSWORD") \o <<SP>> \o password)
             ELSE u), LAMBDA p :
        IF p.exc # "none" THEN Raise(p.s, "SomethingWentWrong") ELSE p))

\* _disconnect without the LOGOUT
_disconnect_NoLogout(s, io) ==
    IF s.child # 0 /\ io.close \notin {"none", "ExceptionPexpect"}
    THEN Raise(s, io.close)
    ELSE Ok([s EXCEPT !.open = @ \ {s.child}, !.child = 0], <<>>)

\* _disconnect(): with a transport, write LOGOUT and close it, an
\* ExceptionPexpect of either is passed over; then _child = None.  (A
\* transport whose close() raised is closed all the same: it was already.)
_disconnect(s, io) ==
    IF s.child # 0
    THEN Bind(_write(s, "_disconnect", <<"LOGOUT", NL>>, io), LAMBDA w :
         IF w.exc \notin {"none", "ExceptionPexpect"} THEN w
         ELSE IF w.exc = "none" /\ io.close \notin {"none", "ExceptionPexpect"}
         THEN Raise(w.s, io.close)
         ELSE Ok([w.s EXCEPT !.open = @ \ {s.child}, !.child = 0], <<>>))
    ELSE Ok([s EXCEPT !.child = 0], <<>>)

\* transact that opens a connection when the session has none
transact_Reconnect(s, plan, command, io) ==
    Try(IF ~persistent \/ s.child = 0 THEN _connect(s, plan) ELSE Ok(s, <<>>), LAMBDA c :
    Try(_write(c.s, "cmd", command, io), LAMBDA w :
    Try(IF io.write = "none" THEN _read(w.s, plan, command) ELSE _read(w.s, {}, <<>>),
        LAMBDA r :
    Try(IF ~persistent THEN _disconnect(r.s, io) ELSE Ok(r.s, <<>>), LAMBDA d :
        [s   |-> d.s,
         exc |-> "none",
         ret |-> mod_list(r.ret, sub_cmd(command), par_cmd(command)),
         raw |-> r.ret]))))

\* what cmd() does once the command has passed validation, the transport
\* being in condition io when the command is written.  (After a write that
\* failed the server was asked nothing: no line arrives before the timeout.)
transact(s, plan, command, io) ==
    Try(IF ~persistent THEN _connect(s, plan) ELSE Ok(s, <<>>), LAMBDA c :
    Try(_write(c.s, "cmd", command, io), LAMBDA w :
    Try(IF io.write = "none" THEN _read(w.s, plan, command) ELSE _read(w.s, {}, <<>>),
        LAMBDA r :
    Try(IF ~persistent THEN _disconnect(r.s, io) ELSE Ok(r.s, <<>>), LAMBDA d :
        [s   |-> d.s,
         exc |-> "none",
         ret |-> mod_list(r.ret, sub_cmd(command), par_cmd(command)),
         raw |-> r.ret]))))

\* cmd with the connection opened and the command written before validation
cmd_WriteFirst(s, plan, command) ==
    Bind(validate(s.valid_commands, command), LAMBDA v :
    Bind(transact(s, plan, command, Up), LAMBDA t :
        IF v # "none" THEN Raise(t.s, v) ELSE t))

\* cmd(command)
cmd(s, plan, command) ==
    Bind(validate(s.valid_commands, command), LAMBDA v :
        IF v # "none" THEN Raise(s, v) ELSE transact(s, plan, command, Up))

\* cmd(command) on a transport that is in condition io for the command
cmd_io(s, plan, command, io) ==
    Bind(validate(s.valid_commands, command), LAMBDA v :
        IF v # "none" THEN Raise(s, v) ELSE transact(s, plan, command, io))

\* _get_commands(device)
_get_commands(s, plan, device) ==
    cmd(s, plan, join(<<W("LIST"), W("CMD"), device>>))

\* the loop of _get_devices() over the lines of LIST UPS
RECURSIVE devices_of(_, _)
devices_of(list, dict) ==
    IF list = <<>> THEN [exc |-> "none", ret |-> dict]
    ELSE Bind(shlex_split(Head(list)), LAMBDA ups :
         IF ups.exc # "none" THEN [exc |-> ups.exc, ret |-> dict]
         ELSE IF Len(ups.toks) < 3 THEN [exc |-> "IndexError", ret |-> dict]
         ELSE Bind(dict_set(dict, ups.toks[2], ups.toks[3]), LAMBDA d :
              devices_of(Tail(list), d)))

\* _get_devices()
_get_devices(s, plan) ==
    Try(cmd(s, plan, join(<<W("LIST"), W("UPS")>>)), LAMBDA c :
    Bind(devices_of(c.ret, <<>>), LAMBDA d :
        IF d.exc # "none" THEN Raise(c.s, d.exc) ELSE Ok(c.s, d.ret)))

\* the loop of _get_vars() over the lines of LIST VAR / LIST RW
RECURSIVE vars_of(_, _, _)
vars_of(list, type, dict) ==
    IF list = <<>> THEN [exc |-> "none", ret |-> dict]
    ELSE Bind(shlex_split(Head(list)), LAMBDA kv :
         IF kv.exc # "none" THEN [exc |-> kv.exc, ret |-> dict]
         ELSE IF Len(kv.toks) < 2 THEN [exc |-> "IndexError", ret |-> dict]
         ELSE Bind(dict_set(dict, kv.toks[1],
                            <<replace(kv.toks[2], <<DQ>>, <<>>), type>>), LAMBDA d :
              vars_of(Tail(list), type, d)))

\* _get_vars(device, sub)
_get_vars(s, plan, device, sub) ==
    Try(cmd(s, plan, join(<<W("LIST"), sub, device>>)), LAMBDA c :
    Bind(vars_of(c.ret, IF sub = W("RW") THEN "rw" ELSE "r-", <<>>), LAMBDA d :
        IF d.exc # "none" THEN Raise(c.s, d.exc) ELSE Ok(c.s, d.ret)))

\* help that keeps its result in valid_commands
help_Storing(s, plan) ==
    Try(cmd(s, plan, W("HELP")), LAMBDA result :
        IF result.ret = <<>> THEN Raise(result.s, "IndexError")
        ELSE Ok([result.s EXCEPT !.valid_commands = Tail(split_ws(result.ret[1], <<>>))],
                Tail(split_ws(result.ret[1], <<>>))))

\* help()
help(s, plan) ==
    Try(cmd(s, plan, W("HELP")), LAMBDA result :
        IF result.ret = <<>> THEN Raise(result.s, "IndexError")
        ELSE Ok(result.s, Tail(split_ws(result.ret[1], <<>>))))

\* ver(): " - protocol ".join([cmd("VER")[0], cmd("PROTVER")[0]])
ver(s, plan) ==
    Try(cmd(s, plan, W("VER")), LAMBDA v :
        IF v.ret = <<>> THEN Raise(v.s, "IndexError")
        ELSE Try(cmd(v.s, plan, W("PROTVER")), LAMBDA p :
             IF p.ret = <<>> THEN Raise(p.s, "IndexError")
             ELSE Ok(p.s, v.ret[1] \o <<SP, "-", SP, "protocol", SP>> \o p.ret[1])))

\* self.devices[dev][key] = value
set_entry(s, dev, key, value) ==
    [s EXCEPT !.devices = dict_set(@, dev, dict_set(dict_get(@, dev), key, value))]

\* the loop of __init__() over connected_devices
RECURSIVE inventory(_, _, _)
inventory(s, plan, devs) ==
    IF devs = <<>> THEN Ok(s, <<>>)
    ELSE Bind(Head(devs), LAMBDA dev :
         Try(_get_commands([s EXCEPT !.devices = dict_set(@, dev, <<>>)], plan, dev),
             LAMBDA c :
         Try(_get_vars(set_entry(c.s, dev, "commands", c.ret), plan, dev, W("VAR")),
             LAMBDA v :
         Try(_get_vars(set_entry(v.s, dev, "vars", v.ret), plan, dev, W("RW")),
             LAMBDA r :
         Bind(set_entry(r.s, dev, "rw", r.ret), LAMBDA s3 :
             inventory(s3, plan, Tail(devs)))))))

\* __init__ that lists the devices before it asks for HELP
init_DevicesFirst(s, plan) ==
    Try(IF persistent THEN _connect(s, plan) ELSE Ok(s, <<>>), LAMBDA c :
    Try(_get_devices([c.s EXCEPT !.valid_commands = << W("HELP") >>], plan), LAMBDA g :
    Try(help(g.s, plan), LAMBDA h :
        inventory([h.s EXCEPT !.valid_commands = Append(h.ret, W("PROTVER")),
                              !.connected_devices = g.ret, !.devices = <<>>],
                  plan, dict_keys(g.ret)))))

\* __init__()
__init__(s, plan) ==
    Try(IF persistent THEN _connect(s, plan) ELSE Ok(s, <<>>), LAMBDA c :
    Try(help([c.s EXCEPT !.valid_commands = << W("HELP") >>], plan), LAMBDA h :
    Try(_get_devices([h.s EXCEPT !.valid_commands = Append(h.ret, W("PROTVER"))], plan),
        LAMBDA g :
        inventory([g.s EXCEPT !.connected_devices = g.ret, !.devices = <<>>],
                  plan, dict_keys(g.ret)))))

\* the loop of update() over the items of _get_vars(device, 'VAR')
RECURSIVE refresh(_, _, _)
refresh(s, device, items) ==
    IF items = <<>> THEN Ok(s, <<>>)
    ELSE IF ~dict_has(s.devices, device) THEN Raise(s, "KeyError")
    ELSE Bind(dict_get(dict_get(s.devices, device), "vars"), LAMBDA vs :
         IF ~dict_has(vs, items[1][1]) THEN Raise(s, "KeyError")
         ELSE Bind(set_entry(s, device, "vars",
                             dict_set(vs, items[1][1],
                                      <<items[1][2][1], dict_get(vs, items[1][1])[2]>>)),
                   LAMBDA s1 : refresh(s1, device, Tail(items))))

\* update that puts the fresh map in the place of the stored one
update_Replace(s, plan, device) ==
    Try(_get_vars(s, plan, device, W("VAR")), LAMBDA g :
        IF ~dict_has(g.s.devices, device) THEN Raise(g.s, "KeyError")
        ELSE Ok(set_entry(g.s, device, "vars", g.ret), <<>>))

\* update that also notes each call in the device's entry
update_Noting(s, plan, device) ==
    Try(_get_vars(s, plan, device, W("VAR")), LAMBDA g :
    Try(refresh(g.s, device, g.ret), LAMBDA f :
        IF ~dict_has(f.s.devices, device) THEN f
        ELSE Ok(set_entry(f.s, device, "commands",
                          Append(dict_get(dict_get(f.s.devices, device), "commands"),
                                 W("updated"))), <<>>)))

\* update(device)
update(s, plan, device) ==
    Try(_get_vars(s, plan, device, W("VAR")), LAMBDA g : refresh(g.s, device, g.ret))

(***************************************************************************)
(* The session as a state machine: construction, then any sequence of      *)
(* public calls.                                                           *)
(***************************************************************************)
Record(op, arg, r) ==
    [op |-> op, arg |-> arg, exc |-> r.exc, ret |-> r.ret, raw |-> r.raw]

Blank ==
    [child |-> 0, valid_commands |-> <<>>, connected_devices |-> <<>>,
     devices |-> <<>>, open |-> {}, spawns |-> 0, wire |-> <<>>]

\* no _read() in progress
NoRead ==
    [pc |-> "idle", lines |-> <<>>, stream |-> <<>>, end |-> "timeout", eofs |-> 0,
     wait |-> 0]

Logins == {None, W("admin")}
Passwords == {None, W("secret")}

Init ==
    /\ persistent \in BOOLEAN
    /\ login \in Logins
    /\ password \in Passwords
    /\ srv \in Servers
    /\ child = 0
    /\ valid_commands = <<>>
    /\ connected_devices = <<>>
    /\ devices = <<>>
    /\ open = {}
    /\ spawns = 0
    /\ wire = <<>>
    /\ phase = "new"
    /\ last = [op |-> "none", arg |-> <<>>, exc |-> "none", ret |-> <<>>, raw |-> <<>>]
    /\ rd = NoRead
    /\ _timeout = TIMEOUT

\* what no public call changes: the configuration and the server (and rd:
\* within a public call _read() runs from start to end)
Config == UNCHANGED <<persistent, login, password, _timeout, srv, rd>>

\* the deviating replies to a credential: a refusal, or OK after a stray line
AuthFaults == {f \in Faults : f.kind \in {"err", "noise"}}

\* the credentials _connect() sends
AuthRequests ==
    (IF login # None THEN {W("USERNAME") \o <<SP>> \o login} ELSE {})
    \cup (IF password # None THEN {W("PASSWORD") \o <<SP>> \o password} ELSE {})

\* the requests of a listing for the server's devices
ListRequests(subs) ==
    {join(<<W("LIST"), sub, dev>>) : sub \in subs, dev \in {srv.ups[i][1] : i \in 1..Len(srv.ups)}}

\* may a public call spawn a transport?
MaySpawn == persistent \/ Cardinality(open) < MaxOpen

\* client = PyNUT3Client(...), the server replying as one of `plans` says
Constructing(plans) ==
    /\ phase = "new"
    /\ \E plan \in plans :
          \E r \in {__init__(Entry, plan)} :
              /\ Commit(r.s)
              /\ phase' = IF r.exc = "none" THEN "ready" ELSE "dead"
              /\ last' = Record("__init__", <<>>, r)
    /\ Config

Construct ==
    Constructing(Plans((AuthRequests \X AuthFaults)
                       \cup Deviations({W("HELP"), join(<<W("LIST"), W("UPS")>>)}
                                       \cup ListRequests({W("CMD"), W("VAR"), W("RW")})),
                       MaxFaults))

\* the command strings the session machine hands to cmd()
Commands ==
    { W("HELP"), W("VER"),
      join(<<W("LIST"), W("UPS")>>),
      join(<<W("LIST"), W("VAR"), W("ups1")>>),
      join(<<W("LIST"), W("FOO"), W("ups1")>>),
      join(<<W("GET"), W("NUMLOGINS"), W("ups1")>>),
      join(<<W("VER"), W("FOO")>>) }

\* client.cmd(command)
Cmd ==
    /\ phase = "ready"
    /\ MaySpawn
    /\ \E command \in Commands :
       \E plan \in Plans((IF persistent THEN {} ELSE AuthRequests \X AuthFaults)
                         \cup Deviations({command}), MaxFaults) :
          \E r \in {cmd(Entry, plan, command)} :
              /\ Commit(r.s)
              /\ last' = Record("cmd", command, r)
    /\ UNCHANGED phase
    /\ Config

\* client.update(device)
Update ==
    /\ phase = "ready"
    /\ MaySpawn
    /\ \E device \in DevNames :
       \E plan \in Plans((IF persistent THEN {} ELSE AuthRequests \X AuthFaults)
                         \cup Deviations({join(<<W("LIST"), W("VAR"), device>>)}),
                         MaxFaults) :
          \E r \in {update(Entry, plan, device)} :
              /\ Commit(r.s)
              /\ last' = Record("update", device, r)
    /\ UNCHANGED phase
    /\ Config

\* leaving the `with` block: __exit__() calls _disconnect(), the transport
\* being in one of the conditions `ios`
Disconnecting(ios) ==
    /\ phase = "ready"
    /\ \E io \in ios :
          \E r \in {_disconnect(Entry, io)} :
              /\ Commit(r.s)
              /\ last' = Record("_disconnect", io, r)
    /\ UNCHANGED phase
    /\ Config

Disconnect == Disconnecting({Up})

Next == Construct \/ Cmd \/ Update \/ Disconnect

Spec == Init /\ [][Next]_vars

(***************************************************************************)
(* cmd() as a function of its inputs: a constructed session, every command *)
(* string of up to MaxTokens tokens, every response of up to MaxLines      *)
(* lines.                                                                  *)
(***************************************************************************)
\* construction against a well-behaved server
ConstructClean == Constructing({{}})

Tokens ==
    {<<>>, W("LIST"), W("VER"), W("PROTVER"), W("GET"), W("UPS"), W("VAR"), W("FOO"),
     W("ups1")}

\* the strings of 1..n tokens separated by single spaces
RECURSIVE TokenStrings(_)
TokenStrings(n) ==
    IF n = 1 THEN Tokens
    ELSE TokenStrings(n - 1)
         \cup {c \o <<SP>> \o t : c \in TokenStrings(n - 1), t \in Tokens}

FrameCommand == join(<<W("LIST"), W("VAR"), W("ups1")>>)

Lines ==
    { W("junk"),
      W("BEGIN") \o <<SP>> \o FrameCommand,
      join(<<W("VAR"), W("ups1"), W("v1"), <<DQ, "100", DQ>> >>),
      join(<<W("VAR"), W("ups1"), W("v2"), <<DQ, "a", SP, "b", DQ>> >>),
      W("END") \o <<SP>> \o FrameCommand,
      <<CR>> }

\* the sequences of 0..n lines
RECURSIVE LineSeqs(_)
LineSeqs(n) ==
    IF n = 0 THEN {<<>>}
    ELSE LineSeqs(n - 1)
         \cup {Append(l, x) : l \in LineSeqs(n - 1), x \in Lines}

\* the first call on the constructed session: cmd(command) for any command
\* string, answered by the server
CmdGrammar ==
    /\ phase = "ready"
    /\ last.op = "__init__"
    /\ \E command \in TokenStrings(MaxTokens) :
          \E r \in {cmd(Entry, {}, command)} :
              /\ Commit(r.s)
              /\ last' = Record("cmd", command, r)
    /\ UNCHANGED phase
    /\ Config

\* the first call on the constructed session: cmd("LIST VAR ups1") answered
\* by any sequence of raw lines
CmdFrame ==
    /\ phase = "ready"
    /\ last.op = "__init__"
    /\ \E raw \in LineSeqs(MaxLines) :
          \E r \in {cmd(Entry, {<<FrameCommand, Literal(raw)>>}, FrameCommand)} :
              /\ Commit(r.s)
              /\ last' = Record("cmd", FrameCommand, r)
    /\ UNCHANGED phase
    /\ Config

\* the commands the server answers with one line, without BEGIN/END framing
SingleLine == {W("VER"), W("HELP"), W("PROTVER")}

\* contents of the one reply line, as _read() hands it over: the text before
\* the "\n" (a server that ends its lines with "\r\n" leaves the "\r")
ReplyLines ==
    { join(<<W("upsd"), W("2.8")>>),
      join(<<W("upsd"), W("2.8")>>) \o <<CR>>,
      <<"upsd", SP, SP, "2.8">>,
      join(<<W("END"), W("of"), W("life")>>),
      W("1.3") }

\* the first call on the constructed session: a single-line command answered
\* by any one reply line
CmdLine ==
    /\ phase = "ready"
    /\ last.op = "__init__"
    /\ \E command \in SingleLine, line \in ReplyLines :
          \E r \in {cmd(Entry, {<<command, Literal(<<line>>)>>}, command)} :
              /\ Commit(r.s)
              /\ last' = Record("cmd", command, r)
    /\ UNCHANGED phase
    /\ Config

NextCmd == ConstructClean \/ CmdGrammar \/ CmdFrame \/ CmdLine

SpecCmd == Init /\ [][NextCmd]_vars

(***************************************************************************)
(* update() against a server whose variables change between the calls.     *)
(***************************************************************************)
\* the variables the server may hold for ups1: the ones of construction, a
\* changed value, a variable removed, a variable added, none
VarSets ==
    { << <<W("v1"), W("100")>>, <<W("v2"), <<"a", SP, "b">> >> >>,
      << <<W("v1"), W("90")>>, <<W("v2"), <<"a", SP, "b">> >> >>,
      << <<W("v2"), <<"a", SP, "b">> >> >>,
      << <<W("v1"), W("100")>>, <<W("v2"), <<"a", SP, "b">> >>, <<W("v3"), W("7")>> >>,
      <<>> }

\* the server's variables of a device change (the client is not involved)
ServerChange ==
    /\ phase = "ready"
    /\ \E dev \in DevNames, v \in VarSets :
          /\ dict_has(srv.vars, dev)
          /\ dict_get(srv.vars, dev) # v
          /\ srv' = [srv EXCEPT !.vars = dict_set(@, dev, v)]
          /\ last' = [op |-> "server", arg |-> dev, exc |-> "none", ret |-> <<>>,
                      raw |-> <<>>]
    /\ UNCHANGED <<persistent, login, password, _timeout, child, valid_commands,
                   connected_devices, devices, open, spawns, wire, phase, rd>>

\* client.update(device), answered by the server
UpdateClean ==
    /\ phase = "ready"
    /\ MaySpawn
    /\ \E device \in DevNames :
          \E r \in {update(Entry, {}, device)} :
              /\ Commit(r.s)
              /\ last' = Record("update", device, r)
    /\ UNCHANGED phase
    /\ Config

NextUpd == ConstructClean \/ ServerChange \/ UpdateClean

\* a server with two devices
TwoUps ==
    [user |-> << W("OK") >>, pass |-> << W("OK") >>,
     help |-> << W("HELP"), W("VER"), W("LIST") >>,
     ups  |-> << <<W("ups1"), <<"Test", SP, "UPS">> >>, <<W("ups2"), W("Spare")>> >>,
     vars |-> << <<W("ups1"), << <<W("v1"), W("100")>>, <<W("v2"), <<"a", SP, "b">> >> >> >>,
                 <<W("ups2"), << <<W("v1"), W("90")>> >> >> >>,
     rw   |-> << <<W("ups1"), << <<W("v2"), <<"a", SP, "b">> >> >> >>,
                 <<W("ups2"), <<>> >> >>,
     cmds |-> << <<W("ups1"), << W("c1") >> >>, <<W("ups2"), <<>> >> >>]

InitUpd ==
    /\ persistent \in BOOLEAN
    /\ login \in Logins
    /\ password \in Passwords
    /\ srv \in Servers \cup {TwoUps}
    /\ child = 0
    /\ valid_commands = <<>>
    /\ connected_devices = <<>>
    /\ devices = <<>>
    /\ open = {}
    /\ spawns = 0
    /\ wire = <<>>
    /\ phase = "new"
    /\ last = [op |-> "none", arg |-> <<>>, exc |-> "none", ret |-> <<>>, raw |-> <<>>]
    /\ rd = NoRead
    /\ _timeout = TIMEOUT

SpecUpd == InitUpd /\ [][NextUpd]_vars

(***************************************************************************)
(* The connections of a session: calls whose credentials the server may    *)
(* refuse, teardown of connections in any condition, and the interpreter   *)
(* finalising the transports that the session dropped.                     *)
(***************************************************************************)
\* The interpreter finalises a transport object that the session no longer
\* references (self._child was overwritten by a later spawn): the object's
\* finaliser closes the transport.  When this happens, if ever, is up to the
\* interpreter; the session's code plays no part in it.
Finalize ==
    /\ \E h \in open \ {child} :
          /\ open' = open \ {h}
          /\ last' = [op |-> "finalize", arg |-> <<>>, exc |-> "none", ret |-> <<>>,
                      raw |-> <<>>]
    /\ UNCHANGED <<child, valid_commands, connected_devices, devices, spawns, wire,
                   phase>>
    /\ Config

\* construction, the server deviating in its replies to the credentials
ConstructConn == Constructing(Plans(AuthRequests \X AuthFaults, MaxFaults))

\* client.cmd(command), the server deviating in its replies to the credentials
CmdConn ==
    /\ phase = "ready"
    /\ MaySpawn
    /\ \E command \in Commands :
       \E plan \in Plans((IF persistent THEN {} ELSE AuthRequests \X AuthFaults),
                         MaxFaults) :
          \E r \in {cmd(Entry, plan, command)} :
              /\ Commit(r.s)
              /\ last' = Record("cmd", command, r)
    /\ UNCHANGED phase
    /\ Config

\* teardown of a connection that is up or already closed
DisconnectAny == Disconnecting({Up} \cup Gone)

NextConn == ConstructConn \/ CmdConn \/ DisconnectAny \/ Finalize

SpecConn == Init /\ [][NextConn]_vars

(***************************************************************************)
(* Every public operation of a constructed session.                        *)
(***************************************************************************)
\* client.help()
Help ==
    /\ phase = "ready"
    /\ MaySpawn
    /\ \E plan \in Plans(Deviations({W("HELP")}), MaxFaults) :
          \E r \in {help(Entry, plan)} :
              /\ Commit(r.s)
              /\ last' = Record("help", <<>>, r)
    /\ UNCHANGED phase
    /\ Config

\* client.ver()
Ver ==
    /\ phase = "ready"
    /\ MaySpawn
    /\ \E plan \in Plans(Deviations({W("VER"), W("PROTVER")}), MaxFaults) :
          \E r \in {ver(Entry, plan)} :
              /\ Commit(r.s)
              /\ last' = Record("ver", <<>>, r)
    /\ UNCHANGED phase
    /\ Config

\* the commands the demo sends directly: client.cmd("LIST CLIENT ups"),
\* client.cmd("GET NUMLOGINS ups")
Direct ==
    { join(<<W("LIST"), W("CLIENT"), W("ups1")>>),
      join(<<W("GET"), W("NUMLOGINS"), W("ups1")>>) }

CmdDirect ==
    /\ phase = "ready"
    /\ MaySpawn
    /\ \E command \in Direct :
          \E r \in {cmd(Entry, {}, command)} :
              /\ Commit(r.s)
              /\ last' = Record("cmd", command, r)
    /\ UNCHANGED phase
    /\ Config

NextPub ==
    ConstructClean \/ CmdConn \/ CmdDirect \/ Help \/ Ver \/ UpdateClean \/ DisconnectAny

SpecPub == Init /\ [][NextPub]_vars

(***************************************************************************)
(* Construction against servers whose devices have any description.        *)
(***************************************************************************)
\* the description of a device: words and spaces between the quotes of its
\* line `UPS <name> "<description>"`
Descriptions == UNION {[1..n -> {"Test", "UPS", SP}] : n \in 0..MaxDesc}

Described ==
    {[TwoUps EXCEPT !.ups = << <<W("ups1"), d>>, <<W("ups2"), e>> >>] :
        d \in Descriptions, e \in {W("Spare"), <<"Test", SP, "UPS">>}}
    \cup {[s EXCEPT !.ups = << <<W("ups1"), d>> >>] :
             s \in {s \in Servers : s.ups # <<>>}, d \in Descriptions}

InitDev ==
    /\ persistent \in BOOLEAN
    /\ login = None
    /\ password = None
    /\ srv \in Described
    /\ child = 0
    /\ valid_commands = <<>>
    /\ connected_devices = <<>>
    /\ devices = <<>>
    /\ open = {}
    /\ spawns = 0
    /\ wire = <<>>
    /\ phase = "new"
    /\ last = [op |-> "none", arg |-> <<>>, exc |-> "none", ret |-> <<>>, raw |-> <<>>]
    /\ rd = NoRead
    /\ _timeout = TIMEOUT

SpecDev == InitDev /\ [][ConstructClean]_vars

(***************************************************************************)
(* Construction against a server whose LIST VAR or LIST RW block for ups1  *)
(* has any payload: lines `<sub> ups1 <name> "<value>"`, and lines whose   *)
(* value is not quoted.                                                    *)
(***************************************************************************)
\* <<name, value, quoted>>
Entries ==
    { <<W("v1"), W("100"), TRUE>>, <<W("v2"), <<"a", SP, SP, "b">>, TRUE>>,
      <<W("v3"), W("100"), FALSE>>, <<W("v4"), W("on"), FALSE>> }

\* the sequences of up to n distinct payload entries
RECURSIVE EntrySeqs(_)
EntrySeqs(n) ==
    IF n = 0 THEN {<<>>}
    ELSE EntrySeqs(n - 1)
         \cup {Append(q[1], q[2]) :
                   q \in {q \in EntrySeqs(n - 1) \X Entries :
                             /\ Len(q[1]) = n - 1
                             /\ \A i \in 1..Len(q[1]) : q[1][i][1] # q[2][1]}}

RECURSIVE payload_lines(_, _, _)
payload_lines(sub, dev, d) ==
    IF d = <<>> THEN <<>>
    ELSE << join(<<sub, dev, d[1][1],
                   IF d[1][3] THEN <<DQ>> \o d[1][2] \o <<DQ>> ELSE d[1][2]>>) >>
         \o payload_lines(sub, dev, Tail(d))

\* __init__() where the block for `LIST <sub> ups1` carries the payload;
\* the record of the call keeps what the server sent
ConstructPayload ==
    /\ phase = "new"
    /\ \E sub \in {W("VAR"), W("RW")}, d \in EntrySeqs(MaxPayload) :
          \E req \in {join(<<W("LIST"), sub, W("ups1")>>)} :
          \E r \in {__init__(Entry,
                       {<<req, Literal(block(req, payload_lines(sub, W("ups1"), d)))>>})} :
              /\ Commit(r.s)
              /\ phase' = IF r.exc = "none" THEN "ready" ELSE "dead"
              /\ last' = [Record("__init__", sub, r) EXCEPT !.raw = d]
    /\ Config

SpecPayload == Init /\ [][ConstructPayload]_vars

(***************************************************************************)
(* Commands on a transport that may fail when the command is written.      *)
(***************************************************************************)
CmdIo ==
    /\ phase = "ready"
    /\ MaySpawn
    /\ \E command \in Commands, io \in {Up} \cup Gone :
          \E r \in {cmd_io(Entry, {}, command, io)} :
              /\ Commit(r.s)
              /\ last' = Record("cmd", command, r)
    /\ UNCHANGED phase
    /\ Config

NextIo == ConstructClean \/ CmdIo \/ DisconnectAny

SpecIo == Init /\ [][NextIo]_vars

(***************************************************************************)
(* Construction against servers that answer the credentials in any way.    *)
(***************************************************************************)
\* what a server may answer to a credential: OK, a refusal, nothing before
\* the timeout, another line that starts with OK, OK after another line
AuthReplies ==
    { << W("OK") >>,
      << join(<<W("ERR"), W("ACCESS-DENIED")>>) >>,
      <<>>,
      << join(<<W("OK"), W("Goodbye")>>) >>,
      << join(<<W("ERR"), W("ACCESS-DENIED")>>), W("OK") >> }

InitAuth ==
    /\ persistent \in BOOLEAN
    /\ login \in Logins
    /\ password \in Passwords
    /\ srv \in {[s EXCEPT !.user = u, !.pass = p] :
                    s \in Servers, u \in AuthReplies, p \in AuthReplies}
    /\ child = 0
    /\ valid_commands = <<>>
    /\ connected_devices = <<>>
    /\ devices = <<>>
    /\ open = {}
    /\ spawns = 0
    /\ wire = <<>>
    /\ phase = "new"
    /\ last = [op |-> "none", arg |-> <<>>, exc |-> "none", ret |-> <<>>, raw |-> <<>>]
    /\ rd = NoRead
    /\ _timeout = TIMEOUT

SpecAuth == InitAuth /\ [][ConstructClean]_vars

(***************************************************************************)
(* The loop of _read(), one expect() per step.                             *)
(*   rd.stream: the lines still to arrive on the transport                 *)
(*   rd.end:    what follows them: "timeout" (the server stays silent) or  *)
(*              "eof" (the server or the transport process has closed)     *)
(*   rd.lines:  _lines, without the empty strings appended at end-of-stream*)
(*   rd.eofs:   those empty strings: 0 for none, 1 for an odd number,      *)
(*              2 for an even number of them                               *)
(*   rd.pc:     "entry", "loop", "returned", "raised"                      *)
(*   rd.wait:   the timeout the latest expect() was given (0: none yet)    *)
(***************************************************************************)
\* the timeouts a session may have been constructed with
Timeouts == {1, TIMEOUT, 5}

InitRead ==
    /\ persistent = TRUE
    /\ login = None
    /\ password = None
    /\ srv \in Servers
    /\ child \in {0, 1}
    /\ open = IF child = 0 THEN {} ELSE {child}
    /\ valid_commands = <<>>
    /\ connected_devices = <<>>
    /\ devices = <<>>
    /\ spawns = 0
    /\ wire = <<>>
    /\ phase = "reading"
    /\ last = [op |-> "none", arg |-> <<>>, exc |-> "none", ret |-> <<>>, raw |-> <<>>]
    /\ rd \in [pc : {"entry"}, lines : {<<>>}, stream : LineSeqs(MaxStream),
                end : {"timeout", "eof"}, eofs : {0}, wait : {0}]
    /\ _timeout \in Timeouts

NotReading ==
    UNCHANGED <<persistent, login, password, _timeout, child, valid_commands,
                connected_devices, devices, open, spawns, wire, srv, phase, last>>

\* _lines = []; if not self._child: raise RuntimeError
ReadEnter ==
    /\ rd.pc = "entry"
    /\ rd' = [rd EXCEPT !.pc = IF child = 0 THEN "raised" ELSE "loop"]
    /\ NotReading

\* One pass of `while True`: expect([EOF, "\n"], timeout) returns when a line
\* has arrived and when the stream is at its end, and the text before the
\* match is appended; only its TIMEOUT leaves the loop.  `timeout` is the
\* parameter of _read(self, timeout=TIMEOUT); every caller calls
\* self._read(), so it has its default.
ReadExpect ==
    /\ rd.pc = "loop"
    /\ rd' = IF rd.stream # <<>>
             THEN [rd EXCEPT !.lines = Append(@, Head(rd.stream)),
                             !.stream = Tail(@), !.wait = TIMEOUT]
             ELSE IF rd.end = "eof"
             THEN [rd EXCEPT !.eofs = IF @ = 1 THEN 2 ELSE 1, !.wait = TIMEOUT]
             ELSE [rd EXCEPT !.pc = "returned", !.wait = TIMEOUT]
    /\ NotReading

NextRead == ReadEnter \/ ReadExpect

\* the interpreter keeps running the loop
SpecRead == InitRead /\ [][NextRead]_vars /\ WF_vars(NextRead)

(***************************************************************************)
(* Properties.                                                             *)
(***************************************************************************)
\* the latest call was cmd() and it wrote its command to the transport
CmdWrote == last.op = "cmd" /\ \E i \in 1..Len(wire) : wire[i].by = "cmd"

\* C1: a command that cmd() rejects during validation is rejected before any
\* I/O: nothing is written, no transport is spawned (in non-persistent mode
\* none is opened for the call) and the session is left as it was.
C1_RejectedBeforeIO ==
    [][(last'.op = "cmd" /\ last'.exc \in Rejections)
         => /\ wire' = <<>>
            /\ spawns' = 0
            /\ child' = child
            /\ open' = open
            /\ valid_commands' = valid_commands
            /\ connected_devices' = connected_devices
            /\ devices' = devices]_vars

\* `LIST FOO ups1` was rejected on a non-persistent session
C1_Witness ==
    /\ ~persistent
    /\ last.op = "cmd"
    /\ last.arg = join(<<W("LIST"), W("FOO"), W("ups1")>>)
    /\ last.exc = "UnsupportedSubcommand"

\* membership of a command string in the static grammar table: the main
\* command alone, or with a verbatim sub-command, or with a `SUB %`
\* sub-command and one parameter
InGrammar(command) ==
    LET t == split(command, SP)
    IN  /\ In(t[1], SUPPORTED[<<"commands">>])
        /\ \/ Len(t) = 1
           \/ /\ Len(t) = 2
              /\ t[1] \in DOMAIN SUPPORTED
              /\ In(t[2], SUPPORTED[t[1]])
           \/ /\ Len(t) = 3
              /\ t[1] \in DOMAIN SUPPORTED
              /\ t[3] # <<>>
              /\ In(t[2] \o <<SP, "%">>, SUPPORTED[t[1]])

\* C2: every command string that cmd() writes to the transport lies inside
\* the static grammar table.
C2_WrittenInGrammar ==
    \A i \in 1..Len(wire) : wire[i].by = "cmd" => InGrammar(wire[i].text)

\* C3: a command whose main command is not among the commands the server
\* reported in its HELP reply fails with the unsupported-by-server error.
C3_NotReportedRejected ==
    (phase = "ready" /\ last.op = "cmd" /\ ~In(main_cmd(last.arg), srv.help))
        => last.exc = "UnsupportedByServer"

\* C3 (amended): a command whose main command is neither among the commands
\* the server reported in its HELP reply nor PROTVER, which the client adds
\* to valid_commands itself, fails with the unsupported-by-server error.
C3_NotReportedNorProtverRejected ==
    (phase = "ready" /\ last.op = "cmd" /\ ~In(main_cmd(last.arg), srv.help)
       /\ main_cmd(last.arg) # W("PROTVER"))
        => last.exc = "UnsupportedByServer"

\* `GET ...` was rejected on a server whose HELP reply has no GET
C3_Witness ==
    /\ phase = "ready"
    /\ last.op = "cmd"
    /\ main_cmd(last.arg) = W("GET")
    /\ ~In(W("GET"), srv.help)
    /\ last.exc = "UnsupportedByServer"

\* C4: a command whose main command is in valid_commands but not in the
\* client's static command set fails with the unsupported-by-client error.
C4_NotSupportedByClient ==
    (last.op = "cmd" /\ In(main_cmd(last.arg), valid_commands)
       /\ ~In(main_cmd(last.arg), SUPPORTED[<<"commands">>]))
        => last.exc = "UnsupportedByClient"

\* `GET VAR` was rejected on a server that reports GET
C4_Witness ==
    /\ last.op = "cmd"
    /\ last.arg = join(<<W("GET"), W("VAR")>>)
    /\ In(W("GET"), valid_commands)
    /\ last.exc = "UnsupportedByClient"

\* the main command passed the server's and the client's check
PassedMain(command) ==
    /\ In(main_cmd(command), valid_commands)
    /\ In(main_cmd(command), SUPPORTED[<<"commands">>])

\* the static sub-command list of a main command (empty when it has none)
SubList(main) == IF main \in DOMAIN SUPPORTED THEN SUPPORTED[main] ELSE <<>>

\* C5: with a sub-command and no parameter, a sub-command that is not
\* verbatim in the main command's static list fails with the
\* unsupported-sub-command error, not with any other failure.
C5_SubWithoutParam ==
    (last.op = "cmd" /\ PassedMain(last.arg)
       /\ sub_cmd(last.arg) # <<>> /\ par_cmd(last.arg) = <<>>
       /\ ~In(sub_cmd(last.arg), SubList(main_cmd(last.arg))))
        => last.exc = "UnsupportedSubcommand"

\* C6: with a sub-command and a parameter, a sub-command without a
\* parameterized entry `SUB %` in the main command's static list fails with
\* the unsupported-sub-command error, not with any other failure.
C6_SubWithParam ==
    (last.op = "cmd" /\ PassedMain(last.arg)
       /\ sub_cmd(last.arg) # <<>> /\ par_cmd(last.arg) # <<>>
       /\ ~In(sub_cmd(last.arg) \o <<SP, "%">>, SubList(main_cmd(last.arg))))
        => last.exc = "UnsupportedSubcommand"

\* the error kind of the first validation rule that a (main, sub, param)
\* triple violates, "none" for a triple of the grammar table
FirstRuleViolated(main, sub, par) ==
    IF ~In(main, valid_commands) THEN "UnsupportedByServer"
    ELSE IF ~In(main, SUPPORTED[<<"commands">>]) THEN "UnsupportedByClient"
    ELSE IF sub = <<>> /\ par = <<>> THEN "none"
    ELSE IF par = <<>>
         THEN (IF In(sub, SubList(main)) THEN "none" ELSE "UnsupportedSubcommand")
    ELSE IF In(sub \o <<SP, "%">>, SubList(main)) THEN "none"
    ELSE "UnsupportedSubcommand"

\* C7: for every (main, sub, param) triple, cmd() sends it if and only if it
\* is in the grammar table, and rejects every other triple with the error
\* kind of the first rule it violates.
C7_ValidationIsTheTable ==
    (last.op = "cmd" /\ Len(split(last.arg, SP)) <= 3)
        => LET t == split(last.arg, SP)
               expected == FirstRuleViolated(t[1],
                               IF Len(t) >= 2 THEN t[2] ELSE <<>>,
                               IF Len(t) >= 3 THEN t[3] ELSE <<>>)
           IN  /\ last.exc = expected
               /\ CmdWrote <=> expected = "none"

FirstToken(line) == split(line, SP)[1]

\* a payload line as cmd("LIST VAR ups1") returns it: without the echoed
\* `VAR ups1 ` and without carriage returns
Payload(line) ==
    replace(replace(line, <<"VAR", SP, "ups1", SP>>, <<>>), <<CR>>, <<>>)

\* the raw lines are `noise..., BEGIN X, line1, line2, END X`
IsNoisyBlock(raw) ==
    /\ Len(raw) >= 4
    /\ LET n == Len(raw)
       IN  /\ raw[n - 3] = W("BEGIN") \o <<SP>> \o FrameCommand
           /\ raw[n] = W("END") \o <<SP>> \o FrameCommand
           /\ \A i \in {n - 2, n - 1} : FirstToken(raw[i]) = W("VAR")
           /\ \A i \in 1..(n - 4) : FirstToken(raw[i]) # W("BEGIN")

\* C8: framing `noise..., BEGIN X, line1, line2, END X` yields exactly
\* [line1, line2]: nothing read before the BEGIN line is in the result.
C8_NoiseBeforeBeginDropped ==
    (CmdWrote /\ last.exc = "none" /\ IsNoisyBlock(last.raw))
        => last.ret = << Payload(last.raw[Len(last.raw) - 2]),
                         Payload(last.raw[Len(last.raw) - 1]) >>

\* C9: a line whose first token is END ends the accumulation: the result is
\* that of the lines up to the first END line, no later line is in it.
C9_NothingAfterEnd ==
    (CmdWrote /\ last.exc = "none")
        => \A i \in 1..Len(last.raw) :
              (FirstToken(last.raw[i]) = W("END")
                 /\ \A j \in 1..(i - 1) : FirstToken(last.raw[j]) # W("END"))
              => last.ret = mod_list(SubSeq(last.raw, 1, i),
                                     sub_cmd(last.arg), par_cmd(last.arg))

\* the variable names the server holds for a device
ServerVars(dev) ==
    IF dict_has(srv.vars, dev)
    THEN {dict_get(srv.vars, dev)[i][1] : i \in 1..Len(dict_get(srv.vars, dev))}
    ELSE {}

\* C10: a LIST request whose first returned line is not `BEGIN <echo>` fails,
\* and nothing derived from such a response is stored in the session: every
\* stored device is a device of the server, every stored variable a
\* variable of the server.
C10_ListWithoutBeginFails ==
    /\ (CmdWrote /\ main_cmd(last.arg) = W("LIST")
          /\ (last.raw = <<>> \/ last.raw[1] # W("BEGIN") \o <<SP>> \o last.arg))
         => last.exc # "none"
    /\ phase = "ready"
         => /\ \A i \in 1..Len(connected_devices) :
                  dict_has(srv.ups, connected_devices[i][1])
            /\ \A i \in 1..Len(devices) :
                  \A k \in {"vars", "rw"} :
                     LET d == dict_get(devices[i][2], k)
                     IN  \A j \in 1..Len(d) : d[j][1] \in ServerVars(devices[i][1])

\* the echo of a `BEGIN <echo>` line
Echo(line) == SubSeq(line, 3, Len(line))

\* the raw lines open a block with a BEGIN line and no later line is the END
\* line with the same echo: the read ended too early, or the END echo differs
IsUnclosedBlock(raw) ==
    /\ raw # <<>>
    /\ FirstToken(raw[1]) = W("BEGIN")
    /\ \A i \in 2..Len(raw) : raw[i] # W("END") \o <<SP>> \o Echo(raw[1])

\* C11: a block response without the END line that matches its BEGIN line is
\* never returned as a result: the LIST operation fails instead of returning
\* the lines collected so far.
C11_UnclosedBlockFails ==
    (CmdWrote /\ main_cmd(last.arg) = W("LIST") /\ IsUnclosedBlock(last.raw))
        => last.exc # "none"

\* a line of the server's reply is an `ERR ...` line
HasErrLine(raw) == \E i \in 1..Len(raw) : FirstToken(raw[i]) = W("ERR")

\* an ERR line was stored as a device, a command or a variable
ErrStored ==
    \/ dict_has(connected_devices, W("ERR"))
    \/ \E i \in 1..Len(devices) :
          \/ \E j \in 1..Len(dict_get(devices[i][2], "commands")) :
                FirstToken(dict_get(devices[i][2], "commands")[j]) = W("ERR")
          \/ \E k \in {"vars", "rw"} : dict_has(dict_get(devices[i][2], k), W("ERR"))

\* C12: when the server answers a request of cmd() with an `ERR ...` line the
\* call fails; no ERR line is returned as a payload line, and none is stored
\* as a device, a command or a variable.
C12_ErrLineFails ==
    /\ (CmdWrote /\ HasErrLine(last.raw))
          => /\ last.exc # "none"
             /\ \A i \in 1..Len(last.ret) : FirstToken(last.ret[i]) # W("ERR")
    /\ phase = "ready" => ~ErrStored

\* a reply line without its line terminator ("\n" is consumed by _read(), a
\* "\r" before it is still at the end of the line)
Unterminated(line) ==
    IF line # <<>> /\ line[Len(line)] = CR THEN SubSeq(line, 1, Len(line) - 1) ELSE line

\* C13: for the single-line commands VER, HELP and PROTVER, cmd() returns a
\* one-element list whose element is the server's reply line unchanged, apart
\* from the line terminator.
C13_SingleLinePassedThrough ==
    (CmdWrote /\ last.arg \in SingleLine /\ last.exc = "none" /\ Len(last.raw) = 1)
        => last.ret = << Unterminated(last.raw[1]) >>

\* the keys of the variable map stored for a device
StoredVars(dev) ==
    IF dict_has(devices, dev)
    THEN LET d == dict_get(dict_get(devices, dev), "vars")
         IN  {d[j][1] : j \in 1..Len(d)}
    ELSE {}

\* C14: after update(device), the device's variable map contains no key that
\* is absent from the server's most recent LIST VAR response for the device
\* (the server's variables have not changed since the call).
C14_NoStaleVariable ==
    last.op = "update" => StoredVars(last.arg) \subseteq ServerVars(last.arg)

\* the credentials _connect() has to send, in order, each with the server's
\* reply to it
Credentials ==
    (IF login # None
     THEN << [text |-> W("USERNAME") \o <<SP>> \o login, reply |-> srv.user] >>
     ELSE <<>>)
    \o (IF password # None
        THEN << [text |-> W("PASSWORD") \o <<SP>> \o password, reply |-> srv.pass] >>
        ELSE <<>>)

\* does the reply refuse the credential?  exact: only the reply that
\* consists of the line OK accepts; else: a reply accepts when one of its
\* lines is OK
Refuses(reply, exact) ==
    IF exact THEN reply # << W("OK") >> ELSE ~In(W("OK"), reply)

\* the position of the first credential that the server refuses (0 when it
\* refuses none)
FirstRefused(exact) ==
    IF \A i \in 1..Len(Credentials) : ~Refuses(Credentials[i].reply, exact) THEN 0
    ELSE CHOOSE i \in 1..Len(Credentials) :
            /\ Refuses(Credentials[i].reply, exact)
            /\ \A j \in 1..(i - 1) : ~Refuses(Credentials[j].reply, exact)

\* construction wrote each credential as its own command up to the first
\* refused one, failed there and wrote nothing more; without a refusal it
\* went on with its first command
AuthOutcome(exact) ==
    (last.op = "__init__" /\ Credentials # <<>>)
        => LET k == FirstRefused(exact) IN
           IF k = 0
           THEN /\ Len(wire) > Len(Credentials)
                /\ \A i \in 1..Len(Credentials) :
                      wire[i].by = "_connect" /\ wire[i].text = Credentials[i].text
                /\ wire[Len(Credentials) + 1].by = "cmd"
           ELSE /\ last.exc = "SomethingWentWrong"
                /\ Len(wire) = k
                /\ \A i \in 1..k :
                      wire[i].by = "_connect" /\ wire[i].text = Credentials[i].text

\* C15: on the first connection of a session each supplied credential is
\* written as its own command; connecting succeeds only if the reply to each
\* is exactly OK, and at the first other reply the connect fails and nothing
\* more is written on the connection.
C15_OnlyOkAuthenticates == AuthOutcome(TRUE)

\* C15 (amended): ... connecting succeeds only if the reply to each credential
\* has a line that is exactly OK; at the first reply without such a line the
\* connect fails and nothing more is written on the connection.
C15_OkLineAuthenticates == AuthOutcome(FALSE)

\* the server accepted the login and refused the password: construction
\* failed after writing the two credentials
C15_Witness ==
    /\ last.op = "__init__"
    /\ Len(Credentials) = 2
    /\ FirstRefused(FALSE) = 2
    /\ last.exc = "SomethingWentWrong"
    /\ Len(wire) = 2

\* C16: after an authentication failure the connection is torn down: the
\* transport spawned for the failed connect is closed and the session holds
\* no connection.
C16_AuthFailureTornDown ==
    (last.op \in {"__init__", "cmd"} /\ last.exc = "SomethingWentWrong" /\ wire # <<>>)
        => /\ child = 0
           /\ wire[Len(wire)].h \notin open

\* C17: in non-persistent mode, after every cmd() call, returned or raised,
\* the session holds no open transport.
C17_NonPersistentCloses ==
    (~persistent /\ last.op = "cmd") => (child = 0 /\ open = {})

\* C18: at most one transport spawned by the session is open.
C18_AtMostOneOpen == Cardinality(open) <= 1

\* C19: teardown of a session with a connection writes LOGOUT on it and
\* closes it; when the connection is already closed, so that the write or
\* the close fails, it does not raise; it always ends with the session
\* holding no connection; teardown of a session without a connection writes
\* nothing and changes nothing.
C19_TeardownIsQuiet ==
    [][last'.op = "_disconnect"
         => /\ last'.exc = "none"
            /\ child' = 0
            /\ UNCHANGED <<valid_commands, connected_devices, devices>>
            /\ IF child # 0
               THEN /\ open' = open \ {child}
                    /\ wire' = IF last'.arg = Up
                               THEN << [h |-> child, by |-> "_disconnect",
                                        text |-> <<"LOGOUT", NL>>] >>
                               ELSE <<>>
               ELSE /\ open' = open
                    /\ wire' = <<>>]_vars

\* a persistent session was torn down: LOGOUT went out on its connection,
\* which is closed now
C19_Witness ==
    /\ persistent
    /\ last.op = "_disconnect"
    /\ last.arg = Up
    /\ Len(wire) = 1 /\ wire[1].text = <<"LOGOUT", NL>>
    /\ child = 0 /\ open = {}

\* C20: reading a response always terminates: _read() returns (or raises for
\* want of a transport), both when no further line arrives within the
\* timeout and when the stream reaches end-of-stream.
C20_ReadTerminates == <>(rd.pc \in {"returned", "raised"})

\* C21: update(device) called again on a known device, the server's state
\* unchanged, ends as the call before it did and leaves the variable values
\* and everything else in the session as they are.
C21_UpdateIdempotent ==
    (phase = "ready" /\ last.op = "update" /\ dict_has(devices, last.arg))
        => \A r \in {update(Entry, {}, last.arg)} :
              /\ r.exc = last.exc
              /\ r.s.devices = devices
              /\ r.s.connected_devices = connected_devices
              /\ r.s.valid_commands = valid_commands
              /\ r.s.child = child
              /\ r.s.open = open
              /\ r.s.wire = wire

\* the value stored for a variable of a device
StoredValue(dev, key) == dict_get(dict_get(dict_get(devices, dev), "vars"), key)[1]

\* update("ups1") has fetched a value that the server changed after
\* construction
C21_Witness ==
    /\ last.op = "update" /\ last.arg = W("ups1") /\ last.exc = "none"
    /\ dict_has(devices, W("ups1"))
    /\ StoredValue(W("ups1"), W("v1")) = W("90")

\* the requests in `w` that were written by cmd()
Requests(w) == SelectSeq(w, LAMBDA e : e.by = "cmd")

\* the entry stored for a device, with the current values of its variables
\* left out: commands, read-write map, and the names and access tags of the
\* variables, in order
Frame(entry) ==
    [commands |-> dict_get(entry, "commands"),
     rw       |-> dict_get(entry, "rw"),
     vars     |-> [j \in 1..Len(dict_get(entry, "vars")) |->
                      << dict_get(entry, "vars")[j][1], dict_get(entry, "vars")[j][2][2] >>]]

\* C22: update(device) sends exactly one request, `LIST VAR <device>`, and
\* changes only the current values of that device's variables: the other
\* devices' entries, the device's commands, read-write map, access tags and
\* variable names, the device keys, connected_devices and valid_commands
\* stay as they are.
C22_UpdateFrame ==
    [][last'.op = "update"
         => /\ Len(Requests(wire')) = 1
            /\ Requests(wire')[1].text = join(<<W("LIST"), W("VAR"), last'.arg>>)
            /\ valid_commands' = valid_commands
            /\ connected_devices' = connected_devices
            /\ dict_keys(devices') = dict_keys(devices)
            /\ \A i \in 1..Len(devices) :
                  IF devices[i][1] = last'.arg
                  THEN Frame(devices'[i][2]) = Frame(devices[i][2])
                  ELSE devices'[i] = devices[i]]_vars

\* update("ups1") has changed a value on a session that holds two devices
C22_Witness ==
    /\ last.op = "update" /\ last.arg = W("ups1") /\ last.exc = "none"
    /\ Len(devices) = 2
    /\ StoredValue(W("ups1"), W("v1")) = W("90")

\* the requests construction has to write for the devices `ups` of the server
RECURSIVE InventoryRequests(_)
InventoryRequests(ups) ==
    IF ups = <<>> THEN <<>>
    ELSE << join(<<W("LIST"), W("CMD"), ups[1][1]>>),
            join(<<W("LIST"), W("VAR"), ups[1][1]>>),
            join(<<W("LIST"), W("RW"), ups[1][1]>>) >>
         \o InventoryRequests(Tail(ups))

\* C23: construction writes HELP first, then LIST UPS, then for each device
\* of the LIST UPS reply LIST CMD, LIST VAR and LIST RW in that order, each
\* request exactly once (a LIST request written before the HELP reply has
\* become valid_commands is rejected, and construction fails).
C23_ConstructionOrder ==
    last.op = "__init__"
        => /\ last.exc = "none"
           /\ [i \in 1..Len(Requests(wire)) |-> Requests(wire)[i].text]
                = << W("HELP"), join(<<W("LIST"), W("UPS")>>) >>
                  \o InventoryRequests(srv.ups)

\* a session was constructed on a server with two devices
C23_Witness ==
    /\ last.op = "__init__"
    /\ phase = "ready"
    /\ Len(connected_devices) = 2

\* the names of the read-write variables the server holds for a device
ServerRw(dev) ==
    IF dict_has(srv.rw, dev)
    THEN {dict_get(srv.rw, dev)[i][1] : i \in 1..Len(dict_get(srv.rw, dev))}
    ELSE {}

\* C24: after construction the variable map of each device holds the
\* variables of its LIST VAR and of its LIST RW response, each tagged
\* read-write if and only if it is in the LIST RW response.
C24_MergedTaggedMap ==
    (last.op = "__init__" /\ phase = "ready")
        => \A i \in 1..Len(devices) :
              LET dev == devices[i][1]
                  map == dict_get(devices[i][2], "vars")
              IN  /\ {map[j][1] : j \in 1..Len(map)} = ServerVars(dev) \cup ServerRw(dev)
                  /\ \A j \in 1..Len(map) :
                        map[j][2][2] = IF map[j][1] \in ServerRw(dev) THEN "rw" ELSE "r-"

\* C25: once construction has completed, no operation (cmd, help, ver,
\* update, teardown) changes valid_commands.
C25_ValidCommandsFixed ==
    [][phase = "ready" => valid_commands' = valid_commands]_vars

\* help() has returned the server's commands, which are not what
\* valid_commands holds (the client added PROTVER to it)
C25_Witness ==
    /\ last.op = "help"
    /\ last.exc = "none"
    /\ last.ret # valid_commands

\* C26: for every well-formed LIST UPS block the device listing is exactly
\* the map from each name to its description, one entry per line, the
\* descriptions kept whole.
C26_DeviceListing ==
    last.op = "__init__"
        => /\ last.exc = "none"
           /\ connected_devices = srv.ups

\* the map the payload stands for: one entry per line with a quoted value
RECURSIVE QuotedEntries(_, _)
QuotedEntries(d, type) ==
    IF d = <<>> THEN <<>>
    ELSE (IF d[1][3] THEN << <<d[1][1], <<d[1][2], type>> >> >> ELSE <<>>)
         \o QuotedEntries(Tail(d), type)

\* C27: the variable map extracted from a LIST VAR or LIST RW block has one
\* entry per payload line with a quoted value, the name mapped to the quoted
\* text with its whitespace; a line without a quote contributes no entry.
C27_QuotedValuesOnly ==
    (last.op = "__init__" /\ last.arg \in {W("VAR"), W("RW")} /\ dict_has(devices, W("ups1")))
        => dict_get(dict_get(devices, W("ups1")), IF last.arg = W("RW") THEN "rw" ELSE "vars")
             = QuotedEntries(last.raw, IF last.arg = W("RW") THEN "rw" ELSE "r-")

\* C28: on a server that reports GET among its commands, GET NUMLOGINS <dev>
\* passes validation and is written to the transport; likewise
\* LIST CLIENT <dev> (on a server that reports LIST).  (The session has its
\* transport: a persistent one has not been torn down.)
C28_GetNumloginsSent ==
    (/\ last.op = "cmd"
     /\ last.arg \in Direct
     /\ In(main_cmd(last.arg), valid_commands)
     /\ persistent => child # 0)
        => /\ last.exc \notin Rejections
           /\ \E i \in 1..Len(wire) : wire[i].by = "cmd" /\ wire[i].text = last.arg

\* C29: cmd() never returns a normal result for a request that was not
\* successfully written: a transport that fails while the request is being
\* written makes the call fail with an error.
C29_NoResultUnwritten ==
    (last.op = "cmd" /\ last.exc = "none")
        => \E i \in 1..Len(wire) : wire[i].by = "cmd" /\ wire[i].text = last.arg

\* C30: each read waits for a response line with the timeout configured at
\* construction: every expect() of _read() is given self._timeout.
C30_ReadsUseConfiguredTimeout ==
    rd.wait # 0 => rd.wait = _timeout

\* the writes of the latest call, connection by connection: the position of
\* write i on its connection (a connection's writes end with its LOGOUT)
RECURSIVE PositionOnConnection(_)
PositionOnConnection(i) ==
    IF i = 1 \/ wire[i - 1].by = "_disconnect" THEN 1
    ELSE PositionOnConnection(i - 1) + 1

IsCredential(text) == text # <<>> /\ text[1] \in {"USERNAME", "PASSWORD"}

\* did the latest call open the connections it wrote on?
OpenedConnections ==
    last.op = "__init__" \/ (~persistent /\ last.op \in {"cmd", "update", "help", "ver"})

\* C31: on every connection the session opens, USERNAME <login> and then
\* PASSWORD <password> (those that were supplied) are written before any
\* other command is written on it; on a connection that was open before the
\* call, and when neither was supplied, no credential is written.
C31_CredentialsFirst ==
    last.op \in {"__init__", "cmd", "update", "help", "ver", "_disconnect"}
        => \A i \in 1..Len(wire) :
             LET k == PositionOnConnection(i) IN
             IF OpenedConnections /\ k <= Len(Credentials)
             THEN wire[i].text = Credentials[k].text
             ELSE ~IsCredential(wire[i].text)

\* a command went out on a connection of its own, after both credentials
C31_Witness ==
    /\ ~persistent
    /\ last.op = "cmd"
    /\ last.exc = "none"
    /\ Len(Credentials) = 2
    /\ Len(wire) = 4
    /\ wire[3].text = last.arg

\* C32: update(device) is all-or-nothing: when it raises, none of the stored
\* variable values has been changed by the call.
C32_UpdateAllOrNothing ==
    [][(last'.op = "update" /\ last'.exc # "none") => devices' = devices]_vars

\* C33: after teardown of a persistent session (it has no transport), every
\* cmd() call with a valid command fails with an error: it writes nothing,
\* opens no connection and returns no result.
C33_NoCmdAfterTeardown ==
    [][(/\ persistent
        /\ phase = "ready"
        /\ child = 0
        /\ last'.op = "cmd"
        /\ validate(valid_commands, last'.arg) = "none")
         => /\ last'.exc # "none"
            /\ last'.ret = <<>>
            /\ wire' = <<>>
            /\ spawns' = 0
            /\ child' = 0
            /\ open' = open]_vars

\* a valid command was refused on a persistent session that was torn down
C33_Witness ==
    /\ persistent
    /\ phase = "ready"
    /\ child = 0
    /\ last.op = "cmd"
    /\ validate(valid_commands, last.arg) = "none"
    /\ last.exc = "RuntimeError"

\* the returned lines come from the raw lines, in their order: each is a raw
\* line without the echoed prefix and without carriage returns
RECURSIVE InServerOrder(_, _, _)
InServerOrder(ret, raw, command) ==
    IF ret = <<>> THEN TRUE
    ELSE IF raw = <<>> THEN FALSE
    ELSE \/ /\ ret[1] = replace(replace(raw[1], sub_cmd(command) \o <<SP>>
                                                  \o par_cmd(command) \o <<SP>>, <<>>),
                                <<CR>>, <<>>)
            /\ InServerOrder(Tail(ret), Tail(raw), command)
         \/ InServerOrder(ret, Tail(raw), command)

\* C34: no line of the list cmd() returns is empty, contains a carriage
\* return or has BEGIN or END as its first token, and the returned lines are
\* in the order of the raw lines they come from.
C34_ReturnedLinesClean ==
    (CmdWrote /\ last.exc = "none")
        => /\ \A i \in 1..Len(last.ret) :
                /\ last.ret[i] # <<>>
                /\ \A k \in 1..Len(last.ret[i]) : last.ret[i][k] # CR
                /\ split(last.ret[i], SP)[1] \notin {W("BEGIN"), W("END")}
           /\ InServerOrder(last.ret, last.raw, last.arg)
====
